---------------------------- MODULE Spec2Model ----------------------------
(***************************************************************************)
(* Model of src/src/translator_control.rs: the single-pass translator of   *)
(* the control constructs (if, while, loop, repeat, for, do) with one      *)
(* character of lookahead.                                                 *)
(*                                                                         *)
(* The reader (stdin) is the environment: every read_byte() either hands   *)
(* over one more character or reports the end of the input.  `input` is    *)
(* the sequence of characters handed over so far, so the lookahead is      *)
(* always the last character of `input`.  The recursive descent is made    *)
(* explicit by `stack`: one frame per active call of program, block or a   *)
(* statement production.  An action runs one call from its entry, or from  *)
(* the return of the block it called, up to its next call of block or its  *)
(* own return.                                                             *)
(***************************************************************************)
EXTENDS Naturals, Sequences, FiniteSets, TLC

\* The longest input the reader hands over before it reports the end.
MaxLen == 5

\* What read_byte() reports when no byte is left.
EOF == "EOF"

\* The value of `look` before the first read ('\0').
NUL == "NUL"

\* The characters the reader can hand over: the reserved ones, one plain
\* name ("a") and, with "=", a character that is not alphabetic.
Alphabet == {"i", "w", "p", "r", "f", "d", "e", "l", "u", "=", "a"}

VARIABLES
    look,       \* Translator.look
    labels,     \* Translator.labels
    input,      \* the characters read_byte() has handed over, in order
    eof,        \* read_byte() has reported the end of the input
    out,        \* what was printed on stdout, piece by piece
    stack,      \* the active calls, the innermost last
    halt,       \* "run", "end" (program returned) or "error" (fail!())
    err,        \* the message of the failure, "" while there is none
    allocated,  \* history: the labels new_label returned, in order
    failed,     \* history: the lookahead, input and output when expected() was called
    done        \* history: the statement productions that returned, in order

vars == <<look, labels, input, eof, out, stack, halt, err, allocated, failed, done>>

NoFail == [look |-> NUL, input |-> <<>>, out |-> <<>>, hit |-> FALSE]

----------------------------------------------------------------------------
(* Characters *)

\* Ascii::is_alphabetic on the characters of Alphabet
is_alphabetic(c) == c \in {"a", "d", "e", "f", "i", "l", "p", "r", "u", "w"}

\* Ascii::to_uppercase
to_uppercase(c) ==
    CASE c = "a" -> "A" [] c = "d" -> "D" [] c = "e" -> "E" [] c = "f" -> "F"
      [] c = "i" -> "I" [] c = "l" -> "L" [] c = "p" -> "P" [] c = "r" -> "R"
      [] c = "u" -> "U" [] c = "w" -> "W" [] OTHER -> c

----------------------------------------------------------------------------
(* The translator's state as one value, and the leaf operations on it.     *)
(* After fail!() nothing else of the run executes: every operation leaves  *)
(* a halted state alone.                                                   *)

Cur == [look |-> look, labels |-> labels, input |-> input, eof |-> eof,
        out |-> out, halt |-> halt, err |-> err, allocated |-> allocated,
        failed |-> failed, ret |-> ""]

\* What read_byte() can report now.
ReaderResults == IF ~eof /\ Len(input) < MaxLen THEN Alphabet \cup {EOF} ELSE {EOF}

\* read() that does not check what read_byte() reports: at the end of the
\* input the lookahead stays and the run goes on.
read_unchecked(m, b) ==
    IF m.halt # "run" THEN m
    ELSE IF b = EOF
         THEN [m EXCEPT !.eof = TRUE]
         ELSE [m EXCEPT !.look = b, !.input = Append(@, b)]

\* pub fn read(&mut self): b is what read_byte() reports
read(m, b) ==
    IF m.halt # "run" THEN m
    ELSE IF b = EOF
         THEN [m EXCEPT !.eof = TRUE, !.halt = "error",
                        !.err = "expected another character"]
         ELSE [m EXCEPT !.look = b, !.input = Append(@, b)]

\* expected() that reports and returns (error() in place of fail!()).
expected_returns(m, s) ==
    IF m.halt # "run" THEN m
    ELSE [m EXCEPT !.out = @ \o <<"Error: " \o s \o " expected.", "\n">>,
                   !.err = s \o " expected",
                   !.failed = IF @.hit THEN @
                              ELSE [look |-> m.look, input |-> m.input,
                                    out |-> m.out, hit |-> TRUE]]

\* pub fn expected(s: &str) -> !
expected(m, s) ==
    IF m.halt # "run" THEN m
    ELSE [m EXCEPT !.out = @ \o <<"Error: " \o s \o " expected.", "\n">>,
                   !.halt = "error",
                   !.err = s \o " expected",
                   !.failed = IF @.hit THEN @
                              ELSE [look |-> m.look, input |-> m.input,
                                    out |-> m.out, hit |-> TRUE]]

\* pub fn match_(&mut self, c: char)
match_(m, c, b) ==
    IF m.halt # "run" THEN m
    ELSE IF m.look = c THEN read(m, b) ELSE expected(m, c)

\* pub fn get_name(&mut self) -> Ascii: the name is left in ret
get_name(m, b) ==
    IF m.halt # "run" THEN m
    ELSE LET l  == m.look
             m1 == IF ~is_alphabetic(l) THEN expected(m, "Name") ELSE m
             m2 == read(m1, b)
         IN  IF m2.halt # "run" THEN m2 ELSE [m2 EXCEPT !.ret = to_uppercase(l)]

\* new_label() that forgets self.labels += 1.
new_label_same(m) ==
    IF m.halt # "run" THEN m
    ELSE LET res == "L" \o ToString(m.labels)
         IN  [m EXCEPT !.ret = res, !.allocated = Append(@, res)]

\* fn new_label(&mut self) -> String: the label is left in ret
new_label(m) ==
    IF m.halt # "run" THEN m
    ELSE LET res == "L" \o ToString(m.labels)
         IN  [m EXCEPT !.labels = @ + 1, !.ret = res,
                       !.allocated = Append(@, res)]

\* pub fn emit(s: &str): print!("\t{}", s)
emit(m, s) ==
    IF m.halt # "run" THEN m ELSE [m EXCEPT !.out = @ \o <<"\t", s>>]

\* pub fn emitln(s: &str): println!("\t{}", s)
emitln(m, s) ==
    IF m.halt # "run" THEN m ELSE [m EXCEPT !.out = @ \o <<"\t", s, "\n">>]

\* post_label() that ends the line (emitln in place of emit).
post_label_line(m, label) == emitln(m, label \o ":")

\* fn post_label(&self, label: &str)
post_label(m, label) == emit(m, label \o ":")

\* condition() that prints the placeholder of expression().
condition_as_expression(m) == emitln(m, "<expression>")

\* fn condition(&mut self)
condition(m) == emitln(m, "<condition>")

\* fn expression(&mut self)
expression(m) == emitln(m, "<expression>")

----------------------------------------------------------------------------
(* The call stack *)

\* One active call.  start, k and o are what the input length, the label
\* counter and the output length were when the call was made; mid and kmid
\* are the output length and the label counter when an if reached its else.
Frame(fn, pc) == [fn |-> fn, pc |-> pc, label1 |-> "", label2 |-> "", name |-> "",
                  start |-> Len(input), k |-> labels, o |-> Len(out), mid |-> 0,
                  kmid |-> 0]

top == stack[Len(stack)]

Running == halt = "run" /\ Len(stack) > 0

\* The caller's frames.
Below == SubSeq(stack, 1, Len(stack) - 1)

\* The call of self.block() from the frame f, which resumes at pc.
CallBlock(f, pc) == Below \o <<[f EXCEPT !.pc = pc], Frame("block", "loop")>>

\* The record of a statement production that returned in state m.
Returned(f, m) == [fn |-> f.fn, start |-> f.start, k |-> f.k, o |-> f.o,
                   mid |-> f.mid, kmid |-> f.kmid,
                   end |-> Len(m.input), look |-> m.look,
                   k2 |-> m.labels, o2 |-> Len(m.out)]

\* The step's result: the state m0; the stack stk and the history hist
\* count only if the step did not fail.
Commit(m0, stk, hist) ==
    \E m \in {m0} :
        /\ look' = m.look
        /\ labels' = m.labels
        /\ input' = m.input
        /\ eof' = m.eof
        /\ out' = m.out
        /\ halt' = m.halt
        /\ err' = m.err
        /\ allocated' = m.allocated
        /\ failed' = m.failed
        /\ stack' = IF m.halt = "error" THEN stack ELSE stk
        /\ done' = IF m.halt = "error" THEN done ELSE hist

\* The return of the statement production f in state m.
Return(f, m) == Commit(m, Below, Append(done, Returned(f, m)))

----------------------------------------------------------------------------
(* Translator::init and Translator::program *)

Init ==
    /\ look = NUL
    /\ labels = 0
    /\ input = <<>>
    /\ eof = FALSE
    /\ out = <<>>
    /\ stack = <<[fn |-> "init", pc |-> "read", label1 |-> "", label2 |-> "",
                  name |-> "", start |-> 0, k |-> 0, o |-> 0, mid |-> 0,
                  kmid |-> 0]>>
    /\ halt = "run"
    /\ err = ""
    /\ allocated = <<>>
    /\ failed = NoFail
    /\ done = <<>>

\* pub fn init() -> Translator: the first read; the caller then runs program()
init ==
    /\ Running /\ top.fn = "init"
    /\ \E b \in ReaderResults :
          Commit(read(Cur, b), <<Frame("program", "block")>>, done)

\* program(), line 65: self.block()
program_block ==
    /\ Running /\ top.fn = "program" /\ top.pc = "block"
    /\ Commit(Cur, CallBlock(top, "end"), done)

\* program() that consumes the terminator (match_('e') in place of the check).
program_end_consuming ==
    /\ Running /\ top.fn = "program" /\ top.pc = "end"
    /\ \E b \in ReaderResults :
          LET m1 == match_(Cur, "e", b)
              m2 == emitln(m1, "END")
              m3 == IF m2.halt = "run" THEN [m2 EXCEPT !.halt = "end"] ELSE m2
          IN  Commit(m3, Below, done)

\* program(), lines 66-69: the check of the terminator and END
program_end ==
    /\ Running /\ top.fn = "program" /\ top.pc = "end"
    /\ LET m1 == IF look # "e" THEN expected(Cur, "End") ELSE Cur
           m2 == emitln(m1, "END")
           m3 == IF m2.halt = "run" THEN [m2 EXCEPT !.halt = "end"] ELSE m2
       IN  Commit(m3, Below, done)

----------------------------------------------------------------------------
(* Translator::block *)

\* The production block() calls on the lookahead c ("" when it returns).
Dispatch(c) ==
    CASE c = "i" -> "if_"
      [] c = "w" -> "while_"
      [] c = "p" -> "loop_"
      [] c = "r" -> "repeat"
      [] c = "f" -> "for_"
      [] c = "d" -> "do_"
      [] c \in {"e", "l", "u"} -> ""
      [] OTHER -> "other"

\* block(), lines 77-82 and 84: the call of a statement production
block_call ==
    /\ Running /\ top.fn = "block" /\ Dispatch(look) # ""
    /\ Commit(Cur, Append(stack, Frame(Dispatch(look), "start")), done)

\* block() whose terminator arm does nothing: the loop goes round again.
block_return_missing ==
    /\ Running /\ top.fn = "block" /\ Dispatch(look) = ""
    /\ UNCHANGED vars

\* block(), line 83: 'e' | 'l' | 'u' => return
block_return ==
    /\ Running /\ top.fn = "block" /\ Dispatch(look) = ""
    /\ Commit(Cur, Below, done)

block == block_call \/ block_return

----------------------------------------------------------------------------
(* Translator::if_ *)

\* if_(), lines 91-100: up to the then-block
if_start ==
    /\ Running /\ top.fn = "if_" /\ top.pc = "start"
    /\ \E b \in ReaderResults :
          LET m1 == match_(Cur, "i", b)
              m2 == new_label(m1)
              label1 == m2.ret
              m3 == condition(m2)
              m4 == emitln(m3, "JZ " \o label1)
          IN  Commit(m4, CallBlock([top EXCEPT !.label1 = label1, !.label2 = label1],
                                   "else"), done)

\* if_() whose else branch takes no label of its own.
if_else_one_label ==
    /\ Running /\ top.fn = "if_" /\ top.pc = "else" /\ look = "l"
    /\ \E b \in ReaderResults :
          LET m1 == match_(Cur, "l", b)
              label2 == top.label1
              m3 == emitln(m1, "JMP " \o label2)
              m4 == post_label(m3, top.label1)
          IN  Commit(m4, CallBlock([top EXCEPT !.label2 = label2, !.mid = Len(out),
                                               !.kmid = m1.labels],
                                   "end"), done)

\* if_(), lines 102-110: the else branch, up to the else-block
if_else ==
    /\ Running /\ top.fn = "if_" /\ top.pc = "else" /\ look = "l"
    /\ \E b \in ReaderResults :
          LET m1 == match_(Cur, "l", b)
              m2 == new_label(m1)
              label2 == m2.ret
              m3 == emitln(m2, "JMP " \o label2)
              m4 == post_label(m3, top.label1)
          IN  Commit(m4, CallBlock([top EXCEPT !.label2 = label2, !.mid = Len(out),
                                               !.kmid = m1.labels],
                                   "end"), done)

\* if_() that posts label1 at its end, whether or not there was an else.
if_end_label1 ==
    /\ Running /\ top.fn = "if_"
    /\ \/ top.pc = "else" /\ look # "l"
       \/ top.pc = "end"
    /\ \E b \in ReaderResults :
          LET m1 == match_(Cur, "e", b)
              m2 == post_label(m1, top.label1)
          IN  Return(top, m2)

\* if_(), lines 113-115: the terminator and the exit label
if_end ==
    /\ Running /\ top.fn = "if_"
    /\ \/ top.pc = "else" /\ look # "l"
       \/ top.pc = "end"
    /\ \E b \in ReaderResults :
          LET m1 == match_(Cur, "e", b)
              m2 == post_label(m1, top.label2)
          IN  Return(top, m2)

if_ == if_start \/ if_else \/ if_end

----------------------------------------------------------------------------
(* Translator::while_ *)

\* while_(), lines 120-130
while_start ==
    /\ Running /\ top.fn = "while_" /\ top.pc = "start"
    /\ \E b \in ReaderResults :
          LET m1 == match_(Cur, "w", b)
              m2 == new_label(m1)
              label1 == m2.ret
              m3 == new_label(m2)
              label2 == m3.ret
              m4 == post_label(m3, label1)
              m5 == condition(m4)
              m6 == emitln(m5, "JZ " \o label2)
          IN  Commit(m6, CallBlock([top EXCEPT !.label1 = label1, !.label2 = label2],
                                   "end"), done)

\* while_(), lines 132-136
while_end ==
    /\ Running /\ top.fn = "while_" /\ top.pc = "end"
    /\ \E b \in ReaderResults :
          LET m1 == match_(Cur, "e", b)
              m2 == emitln(m1, "JMP " \o top.label1)
              m3 == post_label(m2, top.label2)
          IN  Return(top, m3)

while_ == while_start \/ while_end

----------------------------------------------------------------------------
(* Translator::loop_ *)

\* loop_(), lines 141-146
loop_start ==
    /\ Running /\ top.fn = "loop_" /\ top.pc = "start"
    /\ \E b \in ReaderResults :
          LET m1 == match_(Cur, "p", b)
              m2 == new_label(m1)
              label == m2.ret
              m3 == post_label(m2, label)
          IN  Commit(m3, CallBlock([top EXCEPT !.label1 = label], "end"), done)

\* loop_(), lines 148-149
loop_end ==
    /\ Running /\ top.fn = "loop_" /\ top.pc = "end"
    /\ \E b \in ReaderResults :
          LET m1 == match_(Cur, "e", b)
              m2 == emitln(m1, "JMP " \o top.label1)
          IN  Return(top, m2)

loop_ == loop_start \/ loop_end

----------------------------------------------------------------------------
(* Translator::repeat *)

\* repeat(), lines 154-159
repeat_start ==
    /\ Running /\ top.fn = "repeat" /\ top.pc = "start"
    /\ \E b \in ReaderResults :
          LET m1 == match_(Cur, "r", b)
              m2 == new_label(m1)
              label == m2.ret
              m3 == post_label(m2, label)
          IN  Commit(m3, CallBlock([top EXCEPT !.label1 = label], "end"), done)

\* repeat(), lines 161-165
repeat_end ==
    /\ Running /\ top.fn = "repeat" /\ top.pc = "end"
    /\ \E b \in ReaderResults :
          LET m1 == match_(Cur, "u", b)
              m2 == condition(m1)
              m3 == emitln(m2, "JZ " \o top.label1)
          IN  Return(top, m3)

repeat == repeat_start \/ repeat_end

----------------------------------------------------------------------------
(* Translator::for_ *)

\* for_(), lines 170-174
for_start ==
    /\ Running /\ top.fn = "for_" /\ top.pc = "start"
    /\ \E b \in ReaderResults :
          LET m1 == emitln(Cur, "PUSH EBX")
              m2 == match_(m1, "f", b)
              m3 == new_label(m2)
              label1 == m3.ret
              m4 == new_label(m3)
              label2 == m4.ret
          IN  Commit(m4, Below \o <<[top EXCEPT !.label1 = label1, !.label2 = label2,
                                                !.pc = "name"]>>, done)

\* for_(), line 176
for_name ==
    /\ Running /\ top.fn = "for_" /\ top.pc = "name"
    /\ \E b \in ReaderResults :
          LET m1 == get_name(Cur, b)
          IN  Commit(m1, Below \o <<[top EXCEPT !.name = m1.ret, !.pc = "assign"]>>,
                     done)

\* for_(), lines 177-192
for_assign ==
    /\ Running /\ top.fn = "for_" /\ top.pc = "assign"
    /\ \E b \in ReaderResults :
          LET m1 == match_(Cur, "=", b)
              m2 == emitln(m1, "<somehow load " \o top.name \o ">")
              m3 == expression(m2)
              m4 == emitln(m3, "MOV EBX, EAX")
              m5 == expression(m4)
              m6 == emitln(m5, "SUB EAX, EBX")
              m7 == emitln(m6, "JO " \o top.label2)
              m8 == emitln(m7, "<somehow store EAX to " \o top.name \o ">")
              m9 == post_label(m8, top.label1)
          IN  Commit(m9, CallBlock(top, "end"), done)

\* for_(), lines 194-200
for_end ==
    /\ Running /\ top.fn = "for_" /\ top.pc = "end"
    /\ \E b \in ReaderResults :
          LET m1 == match_(Cur, "e", b)
              m2 == emitln(m1, "<somehow SUB " \o top.name \o ", 1>")
              m3 == emitln(m2, "JNZ " \o top.label1)
              m4 == post_label(m3, top.label2)
              m5 == emitln(m4, "POP EBX")
          IN  Return(top, m5)

for_ == for_start \/ for_name \/ for_assign \/ for_end

----------------------------------------------------------------------------
(* Translator::do_ *)

\* do_(), lines 205-212
do_start ==
    /\ Running /\ top.fn = "do_" /\ top.pc = "start"
    /\ \E b \in ReaderResults :
          LET m1 == match_(Cur, "d", b)
              m2 == new_label(m1)
              label == m2.ret
              m3 == expression(m2)
              m4 == emitln(m3, "MOV ECX, EAX")
              m5 == post_label(m4, label)
          IN  Commit(m5, CallBlock([top EXCEPT !.label1 = label], "end"), done)

\* do_() that returns without matching its terminator.
do_end_no_match ==
    /\ Running /\ top.fn = "do_" /\ top.pc = "end"
    /\ LET m1 == emitln(Cur, "LOOP " \o top.label1)
       IN  Return(top, m1)

\* do_(), lines 214-216
do_end ==
    /\ Running /\ top.fn = "do_" /\ top.pc = "end"
    /\ \E b \in ReaderResults :
          LET m1 == emitln(Cur, "LOOP " \o top.label1)
              m2 == match_(m1, "e", b)
          IN  Return(top, m2)

do_ == do_start \/ do_end

----------------------------------------------------------------------------
(* Translator::other *)

\* other(): emitln(self.get_name()...)
other ==
    /\ Running /\ top.fn = "other"
    /\ \E b \in ReaderResults :
          LET m1 == get_name(Cur, b)
              m2 == emitln(m1, m1.ret)
          IN  Return(top, m2)

----------------------------------------------------------------------------
(* The run *)

Next ==
    \/ init
    \/ program_block
    \/ program_end
    \/ block
    \/ if_
    \/ while_
    \/ loop_
    \/ repeat
    \/ for_
    \/ do_
    \/ other

Spec == Init /\ [][Next]_vars

\* The run is one thread: while a step is possible, one is taken.
FairSpec == Spec /\ WF_vars(Next)

----------------------------------------------------------------------------
(* What the output and the input are, read back *)

\* The output as one string.
RECURSIVE Flatten(_)
Flatten(pieces) ==
    IF pieces = <<>> THEN "" ELSE Head(pieces) \o Flatten(Tail(pieces))

\* How often the piece x was printed.
Count(x) == Cardinality({i \in DOMAIN out : out[i] = x})

\* The END line was printed.
HasEND == Count("END") > 0

\* The jump instructions that can name a label.
Jumps == {"JZ ", "JMP ", "JO ", "JNZ ", "LOOP "}

\* How many jump instructions in the output name the label l.
RECURSIVE SumCount(_, _)
SumCount(js, l) ==
    IF js = {} THEN 0
    ELSE LET j == CHOOSE x \in js : TRUE
         IN  Count(j \o l) + SumCount(js \ {j}, l)

\* The grammar of the doc comments, read over a sequence of characters:
\*   <block> ::= [ <statement> ]*       <if> ::= i <block> [ l <block> ] e
\*   <while> ::= w <block> e            <loop> ::= p <block> e
\*   <repeat> ::= r <block> u           <for> ::= f <name> = <block> e
\*   <do> ::= d <block> e               <other> ::= <name>
\* (conditions and expressions take no characters).  StopOfBlock(s, i) is the
\* place of the terminator that stops the block starting at place i, and
\* EndOfStmt(s, i) is the place right after the statement starting at place
\* i; both are 0 when s ends before that place or s is no such statement.
At(s, i) == IF i \in 1..Len(s) THEN s[i] ELSE EOF

After(s, j, c) == IF j > 0 /\ At(s, j) = c /\ j + 1 <= Len(s) THEN j + 1 ELSE 0

RECURSIVE StopOfBlock(_, _), EndOfStmt(_, _)
StopOfBlock(s, i) ==
    IF i = 0 \/ i > Len(s) THEN 0
    ELSE IF s[i] \in {"e", "l", "u"} THEN i
    ELSE StopOfBlock(s, EndOfStmt(s, i))

EndOfStmt(s, i) ==
    LET c == At(s, i)
        j == StopOfBlock(s, i + 1)
    IN  CASE c = "i" -> IF At(s, j) = "l"
                        THEN After(s, StopOfBlock(s, j + 1), "e")
                        ELSE After(s, j, "e")
          [] c \in {"w", "p", "d"} -> After(s, j, "e")
          [] c = "r" -> After(s, j, "u")
          [] c = "f" -> IF is_alphabetic(At(s, i + 1)) /\ At(s, i + 2) = "="
                        THEN After(s, StopOfBlock(s, i + 3), "e")
                        ELSE 0
          [] OTHER -> IF is_alphabetic(c) /\ c \notin {"e", "l", "u"} /\ i + 1 <= Len(s)
                      THEN i + 1 ELSE 0

L(n) == "L" \o ToString(n)

\* The if productions that got past their then-block: those that returned
\* (o2 > 0) and those still active.
IfRuns ==
    {[k |-> done[n].k, o |-> done[n].o, mid |-> done[n].mid, kmid |-> done[n].kmid,
      o2 |-> done[n].o2] : n \in {x \in DOMAIN done : done[x].fn = "if_"}}
    \cup
    {[k |-> stack[n].k, o |-> stack[n].o, mid |-> stack[n].mid,
      kmid |-> stack[n].kmid, o2 |-> 0] :
        n \in {x \in DOMAIN stack : stack[x].fn = "if_" /\ stack[x].pc # "start"}}

\* What the if production r has printed has the shape of if_(), its else
\* branch jumping to the label numbered j.
IfShape(r, j) ==
    /\ SubSeq(out, r.o + 1, r.o + 6) =
          <<"\t", "<condition>", "\n", "\t", "JZ " \o L(r.k), "\n">>
    /\ r.mid > 0 =>
          /\ r.mid >= r.o + 6
          /\ SubSeq(out, r.mid + 1, r.mid + 5) =
                <<"\t", "JMP " \o L(j), "\n", "\t", L(r.k) \o ":">>
    /\ r.o2 > 0 =>
          /\ r.o2 - 2 >= (IF r.mid > 0 THEN r.mid + 5 ELSE r.o + 6)
          /\ SubSeq(out, r.o2 - 1, r.o2) =
                <<"\t", (IF r.mid > 0 THEN L(j) ELSE L(r.k)) \o ":">>

IaeeOutput ==
    (halt = "end" /\ input = <<"i", "a", "e", "e">>) =>
        Flatten(out) = "\t<condition>\n\tJZ L0\n\tA\n\tL0:\tEND\n"

\* The statements that returned and took labels, and the labels each takes.
Constructs == {n \in DOMAIN done : done[n].fn # "other"}

TwoLabels == {n \in Constructs :
                 \/ done[n].fn \in {"while_", "for_"}
                 \/ done[n].fn = "if_" /\ done[n].mid > 0}

----------------------------------------------------------------------------
(* The claims *)

\* The labels held by the productions that are still active.
Pending == {stack[n].label1 : n \in DOMAIN stack} \cup {stack[n].label2 : n \in DOMAIN stack}

\* C1: in a program translated through to END, every label new_label handed
\* out is defined exactly once in the output and is the target of exactly
\* one jump instruction (JZ, JMP, JO, JNZ or LOOP).  On the way there no
\* label is defined or jumped to twice, and only a label of a production
\* that is still active lacks its definition or its jump.
C1_LabelsDefinedAndUsedOnce ==
    \A n \in DOMAIN allocated :
        LET defs  == Count(allocated[n] \o ":")
            jumps == SumCount(Jumps, allocated[n])
        IN  /\ defs <= 1
            /\ jumps <= 1
            /\ (defs = 0 \/ jumps = 0) => allocated[n] \in Pending
            /\ halt = "end" => defs = 1 /\ jumps = 1

\* A program with a loop nested in a while was translated through to END.
C1_Witness ==
    /\ halt = "end"
    /\ labels = 3
    /\ \E n \in DOMAIN done : done[n].fn = "while_"
    /\ \E n \in DOMAIN done : done[n].fn # "while_" /\ done[n].fn # "other"

\* C2: when a statement production returns, it has consumed exactly the
\* characters of its statement (keyword, name, '=', terminators and its
\* nested blocks) and the lookahead is the character right after them.
C2_LookaheadAfterStatement ==
    \A n \in DOMAIN done :
        LET d == done[n]
        IN  /\ d.fn = Dispatch(input[d.start])
            /\ EndOfStmt(input, d.start) = d.end
            /\ d.look = input[d.end]

\* A statement with a statement in its block has returned.
C2_Witness ==
    \E n, x \in DOMAIN done :
        /\ x < n
        /\ done[n].fn # "other"
        /\ done[x].start > done[n].start

\* C3 as stated: the else branch of an if entered with the label counter at
\* k jumps to L(k+1).
C3_ElseJumpsToNextLabel ==
    /\ \A r \in IfRuns : IfShape(r, r.k + 1)
    /\ IaeeOutput

\* C3: an if entered with the label counter at k prints '<condition>',
\* 'JZ Lk', the then-block and then either 'Lk:' or, with an else,
\* 'JMP Lj', 'Lk:', the else-block and 'Lj:', where j is the label counter
\* when the 'l' is consumed: k+1 plus the labels the then-block took.
C3_IfShape ==
    /\ \A r \in IfRuns : IfShape(r, r.kmid) /\ (r.mid > 0 => r.kmid >= r.k + 1)
    /\ IaeeOutput

\* An if with an else has returned and END was printed.
C3_Witness ==
    /\ halt = "end"
    /\ \E r \in IfRuns : r.mid > 0 /\ r.o2 > 0

\* C4: every instruction is a tab and its text; a label definition is not
\* followed by a line break, every other instruction is.
C4_LabelsDoNotEndTheLine ==
    /\ \A i \in DOMAIN out :
          out[i] = "\t" =>
              /\ i + 1 <= Len(out)
              /\ IF \E n \in DOMAIN allocated : out[i + 1] = allocated[n] \o ":"
                 THEN i + 2 <= Len(out) => out[i + 2] # "\n"
                 ELSE i + 2 <= Len(out) /\ out[i + 2] = "\n"
    /\ \A i \in DOMAIN out :
          (\E n \in DOMAIN allocated : out[i] = allocated[n] \o ":") =>
              i > 1 /\ out[i - 1] = "\t"
    /\ (halt = "end" /\ input = <<"w", "a", "e", "e">>) =>
          Flatten(out) = "\tL0:\t<condition>\n\tJZ L1\n\tA\n\tJMP L0\n\tL1:\tEND\n"

\* The input "waee" was translated through to END.
C4_Witness == halt = "end" /\ input = <<"w", "a", "e", "e">>

\* C5: END is printed exactly when the top-level block stops on 'e', which
\* is not consumed; when it stops on 'l' or 'u' the run fails with 'End
\* expected' and prints no END.  The input "e" gives the one line END.
C5_EndOnTerminator ==
    /\ HasEND <=> halt = "end"
    /\ halt = "end" =>
          /\ look = "e"
          /\ StopOfBlock(input, 1) = Len(input)
          /\ SubSeq(out, Len(out) - 2, Len(out)) = <<"\t", "END", "\n">>
          /\ Count("END") = 1
    /\ (Len(stack) = 1 /\ stack[1].fn = "program" /\ stack[1].pc = "end") =>
          StopOfBlock(input, 1) = Len(input)
    /\ (halt # "run" /\ ~eof /\ StopOfBlock(input, 1) = Len(input)) =>
          IF look = "e"
          THEN halt = "end"
          ELSE /\ look \in {"l", "u"}
               /\ halt = "error"
               /\ err = "End expected"
               /\ ~HasEND
    /\ (halt = "end" /\ input = <<"e">>) => Flatten(out) = "\tEND\n"

\* END was printed after a statement; the terminator is the last character read.
C5_Witness == halt = "end" /\ Len(input) >= 3 /\ Len(done) >= 1

\* C6: after match_ or get_name has failed, nothing but the diagnostic is
\* printed, the lookahead stays, and what was printed before remains.
C6_NothingAfterFailure ==
    failed.hit =>
        /\ halt = "error"
        /\ look = failed.look
        /\ input = failed.input
        /\ out = failed.out \o <<"Error: " \o err \o ".", "\n">>
        /\ ~HasEND

\* get_name failed in a nested production after output was printed.
C6_Witness ==
    /\ failed.hit
    /\ err = "Name expected"
    /\ Len(stack) > 3
    /\ Len(failed.out) > 0

\* C7: a read at the end of the input is fatal, so END is only printed
\* when the terminator of the top-level block was read: never for "ie" or
\* "iae".
C7_ExhaustedInputIsFatal ==
    /\ eof =>
          /\ halt = "error"
          /\ err = "expected another character"
          /\ ~HasEND
    /\ HasEND =>
          /\ ~eof
          /\ input[Len(input)] = "e"
          /\ input \notin {<<"i", "e">>, <<"i", "a", "e">>}

\* The input "iae" ran out in the match_ of the if's terminator.
C7_Witness ==
    /\ eof
    /\ input = <<"i", "a", "e">>
    /\ top.fn = "if_"

\* C8: the n-th call of new_label (from 0) returns "L" and n, the counter
\* is the number of calls so far, no label is returned twice, and no step
\* lowers the counter.
C8_LabelsCountUp ==
    /\ [](/\ labels = Len(allocated)
          /\ \A n \in DOMAIN allocated : allocated[n] = "L" \o ToString(n - 1)
          /\ \A n1, n2 \in DOMAIN allocated :
                allocated[n1] = allocated[n2] => n1 = n2)
    /\ [][labels' >= labels /\ Len(allocated') - Len(allocated) = labels' - labels]_vars

\* An if nested in a while has returned, with three labels handed out.
C8_Witness ==
    /\ labels = 3
    /\ \E f \in DOMAIN stack :
          /\ stack[f].fn = "while_"
          /\ \E n \in DOMAIN done : done[n].fn = "if_" /\ done[n].start > stack[f].start

\* C9 as stated: at END the labels handed out are as many as the if,
\* while, loop, repeat, for and do statements translated.
C9_OneLabelPerConstruct ==
    halt = "end" => labels = Cardinality(Constructs)

\* C9: at END the labels handed out are one for every if without else,
\* loop, repeat and do, and two for every while, for and if with else.
C9_LabelsPerConstruct ==
    halt = "end" => labels = Cardinality(Constructs) + Cardinality(TwoLabels)

\* A program with a two-label and a one-label construct was translated.
C9_Witness ==
    /\ halt = "end"
    /\ Cardinality(TwoLabels) >= 1
    /\ Cardinality(Constructs) >= 2

\* C10: every run halts, with END or with an error, and every statement
\* the loop of block went through has consumed at least one character.
C10_Halts ==
    /\ <>(halt \in {"end", "error"})
    /\ [](\A n \in DOMAIN done : done[n].end > done[n].start)

\* END was printed after the statement loop of block went round three times.
C10_Witness ==
    /\ halt = "end"
    /\ Len(done) >= 3
    /\ \A n \in DOMAIN done : done[n].fn = "other"

============================================================================
